---- MODULE Spec2Model ----
(***************************************************************************)
(* aurrpkgs.py: checking the R packages of an AUR maintainer for updates.  *)
(*                                                                         *)
(* main() splits the package list into num_proc contiguous chunks and      *)
(* hands each chunk to check_updates through pool.apply_async.  Every      *)
(* check_updates task walks its chunk, bumps the shared APProgress counter *)
(* under its lock, looks the homepage host up in SUPPORTED_REPOS, fetches  *)
(* the page, extracts the upstream version and compares the two versions   *)
(* as lists of integers.  Strings are sequences of one-character strings.  *)
(***************************************************************************)
EXTENDS Integers, Sequences, FiniteSets, TLC

\* ------------------------------------------------------------------ bounds
\* Spec: longest package list, largest multiprocessing.cpu_count()
MaxPkgs == 2
MaxProcs == 3
\* SpecChunks: the same two for the runs over one uniform package
MaxBatch == 4
MaxPool == 4

\* ------------------------------------------------------- python primitives
\* the value of end_i for the last chunk (a slice end is <<e>> or None)
None == <<>>

Min(a, b) == IF a < b THEN a ELSE b

\* seq[start:end] for start >= 0 and end >= 0 or None
Slice(seq, start, end) ==
    LET hi == IF end = None THEN Len(seq) ELSE Min(end[1], Len(seq))
        lo == Min(start, Len(seq))
    IN  SubSeq(seq, lo + 1, hi)

\* s.split(sep, 1)[0]
SplitFirst(s, sep) ==
    IF \E k \in 1..Len(s) : s[k] = sep
    THEN LET k == CHOOSE k \in 1..Len(s) :
                     s[k] = sep /\ \A j \in 1..(k - 1) : s[j] # sep
         IN  SubSeq(s, 1, k - 1)
    ELSE s

\* re.sub(r"[chars]", repl, s) for a one-character class
ReSub(chars, repl, s) == [k \in 1..Len(s) |-> IF s[k] \in chars THEN repl ELSE s[k]]

\* s.split(sep)
RECURSIVE Split(_, _)
Split(s, sep) ==
    IF \E k \in 1..Len(s) : s[k] = sep
    THEN LET k == CHOOSE k \in 1..Len(s) :
                     s[k] = sep /\ \A j \in 1..(k - 1) : s[j] # sep
         IN  <<SubSeq(s, 1, k - 1)>> \o Split(SubSeq(s, k + 1, Len(s)), sep)
    ELSE <<s>>

DigitChars == {"0", "1", "2", "3", "4", "5", "6", "7", "8", "9"}

DigitVal(c) ==
    CASE c = "0" -> 0 [] c = "1" -> 1 [] c = "2" -> 2 [] c = "3" -> 3
      [] c = "4" -> 4 [] c = "5" -> 5 [] c = "6" -> 6 [] c = "7" -> 7
      [] c = "8" -> 8 [] c = "9" -> 9

RECURSIVE DecimalValue(_)
DecimalValue(ds) ==
    IF Len(ds) = 0 THEN 0
    ELSE 10 * DecimalValue(SubSeq(ds, 1, Len(ds) - 1)) + DigitVal(ds[Len(ds)])

RECURSIVE Strip(_)
Strip(s) ==
    IF Len(s) > 0 /\ s[1] = " " THEN Strip(Tail(s))
    ELSE IF Len(s) > 0 /\ s[Len(s)] = " " THEN Strip(SubSeq(s, 1, Len(s) - 1))
    ELSE s

\* int(x) of a str: surrounding whitespace is stripped, one sign is allowed,
\* digits may be grouped by single underscores; anything else is ValueError
int(x) ==
    LET s      == Strip(x)
        signed == Len(s) > 0 /\ s[1] \in {"+", "-"}
        body   == IF signed THEN Tail(s) ELSE s
        sign   == IF signed /\ s[1] = "-" THEN -1 ELSE 1
        wellformed ==
            /\ Len(body) > 0
            /\ \A k \in 1..Len(body) : body[k] \in DigitChars \cup {"_"}
            /\ body[1] # "_" /\ body[Len(body)] # "_"
            /\ \A k \in 1..(Len(body) - 1) : ~(body[k] = "_" /\ body[k + 1] = "_")
        digits == SelectSeq(body, LAMBDA c : c \in DigitChars)
    IN  IF wellformed THEN [ok |-> TRUE, val |-> sign * DecimalValue(digits)]
        ELSE [ok |-> FALSE, val |-> 0]

\* [int(x) for x in s.split(".")]: the list, or ValueError (ok = FALSE)
IntFields(s) ==
    LET fs == Split(s, ".")
    IN  IF \A k \in 1..Len(fs) : int(fs[k]).ok
        THEN [ok |-> TRUE, val |-> [k \in 1..Len(fs) |-> int(fs[k]).val]]
        ELSE [ok |-> FALSE, val |-> <<>>]

\* (a variant that takes the missing trailing items of the shorter list as 0)
ListLessPadded(a, b) ==
    LET n    == IF Len(a) < Len(b) THEN Len(b) ELSE Len(a)
        pa   == [k \in 1..n |-> IF k <= Len(a) THEN a[k] ELSE 0]
        pb   == [k \in 1..n |-> IF k <= Len(b) THEN b[k] ELSE 0]
        diff == {k \in 1..n : pa[k] # pb[k]}
    IN  IF diff # {}
        THEN LET k == CHOOSE k \in diff : \A j \in diff : k <= j
             IN  pa[k] < pb[k]
        ELSE FALSE

\* (a variant that also answers true for equal lists)
ListLessOrEqual(a, b) ==
    LET m    == Min(Len(a), Len(b))
        diff == {k \in 1..m : a[k] # b[k]}
    IN  IF diff # {}
        THEN LET k == CHOOSE k \in diff : \A j \in diff : k <= j
             IN  a[k] < b[k]
        ELSE Len(a) <= Len(b)

\* a < b on two lists of int
ListLess(a, b) ==
    LET m    == Min(Len(a), Len(b))
        diff == {k \in 1..m : a[k] # b[k]}
    IN  IF diff # {}
        THEN LET k == CHOOSE k \in diff : \A j \in diff : k <= j
             IN  a[k] < b[k]
        ELSE Len(a) < Len(b)

\* str.lower() on the hosts of the model
Lower(s) ==
    CASE s = "CRAN.R-project.org" -> "cran.r-project.org"
      [] s = "Bioconductor.ORG" -> "bioconductor.org"
      [] OTHER -> s

\* "{uri.netloc}".format(uri=urlparse(url)).lower(); a URL is held parsed
Domain(url) == Lower(url.netloc)

\* ---------------------------------------------------------------- registry
MANDATORY_KEYS == {"Name", "Version", "URL"}

SUPPORTED_REPOS ==
    << [name |-> "CRAN", url |-> "cran.r-project.org"],
       [name |-> "Bioconductor", url |-> "bioconductor.org"] >>

\* (a variant that forgets to compare with the domain)
SupportedAny(domain) == \E r \in 1..Len(SUPPORTED_REPOS) : SUPPORTED_REPOS[r].url # ""

\* any(r["url"] == domain for r in SUPPORTED_REPOS)
Supported(domain) == \E r \in 1..Len(SUPPORTED_REPOS) : SUPPORTED_REPOS[r].url = domain

\* next(r for r in SUPPORTED_REPOS if r["url"] == domain)
RepoOf(domain) ==
    LET r == CHOOSE r \in 1..Len(SUPPORTED_REPOS) :
                 /\ SUPPORTED_REPOS[r].url = domain
                 /\ \A q \in 1..(r - 1) : SUPPORTED_REPOS[q].url # domain
    IN  SUPPORTED_REPOS[r]

\* leave only necessary keys
KeepMandatory(package) ==
    [k \in (DOMAIN package) \cap MANDATORY_KEYS |-> package[k]]

\* strip '-pkgrel' part and replace possible underscores with dots
DeclaredVersion(version) == ReSub({"_"}, ".", SplitFirst(version, "-"))

\* (a variant that drops what follows the first '-', as for the declared version)
RepoVersionCut(repover) == ReSub({":"}, ".", SplitFirst(repover, "-"))

\* make RepoVersion to conform with Arch standards
RepoVersion(repover) == ReSub({":", "-"}, ".", repover)

\* ------------------------------------------------------------------- pages
\* A page is a sequence of markup tokens.  "table" opens the table that
\* table_regex of repository `repo` anchors on, "/table" is </table>,
\* "version" is the row version_regex of `repo` matches, with the cell text.
Tok(tag, repo, text) == [tag |-> tag, repo |-> repo, text |-> text]

\* (a variant whose (.*) is greedy: the group runs to the last </table>)
TableSearchGreedy(repo, html) ==
    LET opens == {o \in 1..Len(html) :
                     /\ html[o].tag = "table" /\ html[o].repo = repo.name
                     /\ \E c \in (o + 1)..Len(html) : html[c].tag = "/table"}
    IN  IF opens = {} THEN [found |-> FALSE, group |-> <<>>]
        ELSE LET o == CHOOSE o \in opens : \A p \in opens : o <= p
                 c == CHOOSE c \in (o + 1)..Len(html) :
                          /\ html[c].tag = "/table"
                          /\ \A d \in (c + 1)..Len(html) : html[d].tag # "/table"
             IN  [found |-> TRUE, group |-> SubSeq(html, o + 1, c - 1)]

\* table_pattern.search(html) and group(table_match_index)
TableSearch(repo, html) ==
    LET opens == {o \in 1..Len(html) :
                     /\ html[o].tag = "table" /\ html[o].repo = repo.name
                     /\ \E c \in (o + 1)..Len(html) : html[c].tag = "/table"}
    IN  IF opens = {} THEN [found |-> FALSE, group |-> <<>>]
        ELSE LET o == CHOOSE o \in opens : \A p \in opens : o <= p
                 c == CHOOSE c \in (o + 1)..Len(html) :
                          /\ html[c].tag = "/table"
                          /\ \A d \in (o + 1)..(c - 1) : html[d].tag # "/table"
             IN  [found |-> TRUE, group |-> SubSeq(html, o + 1, c - 1)]

\* version_pattern.search(html) and group(version_match_index)
VersionSearch(repo, html) ==
    LET rows == {v \in 1..Len(html) :
                    html[v].tag = "version" /\ html[v].repo = repo.name}
    IN  IF rows = {} THEN [found |-> FALSE, group |-> <<>>]
        ELSE LET v == CHOOSE v \in rows : \A w \in rows : v <= w
             IN  [found |-> TRUE, group |-> html[v].text]

\* ------------------------------------------------------------------- state
VARIABLES
    pkglist,      \* main: the filtered result list of the AUR query
    web,          \* what urlopen(url) yields for each homepage URL
    num_proc,     \* main: multiprocessing.cpu_count()
    main_pc,      \* main: "dispatch", "join", "summary", "exit"
    i,            \* main: loop variable of the load balancing loop
    chunk,        \* per task: the packages argument of check_updates
    pc,           \* per task: position inside check_updates
    cur,          \* per task: how many packages of the chunk the for loop took
    package,      \* per task: the loop variable `package`
    finished_val, \* finished.val.value
    lock_owner,   \* finished.lock: the task holding it, 0 when free
    output_info,  \* the shared mgr.list()
    stdout,       \* the progress lines printed by the tasks
    uptodate,     \* positions whose comparison fell through without a line
    report        \* what main prints after "done"

vars == <<pkglist, web, num_proc, main_pc, i, chunk, pc, cur, package,
          finished_val, lock_owner, output_info, stdout, uptodate, report>>

inputs == <<pkglist, web, num_proc>>
mainVars == <<main_pc, i, report>>

pkg_total == Len(pkglist)
\* (a variant that rounds the load per worker up)
pkgs_per_proc_ceil == (pkg_total + num_proc - 1) \div num_proc

pkgs_per_proc == pkg_total \div num_proc
Tasks == 1..num_proc

\* ----------------------------------------------------------------- fixtures
Url(netloc, path) == [netloc |-> netloc, path |-> path]

Pkg(id, name, version, url) == [ID |-> id, Name |-> name, Version |-> version, URL |-> url]

HttpError(code) == [kind |-> "HTTPError", code |-> code, reason |-> "", html |-> <<>>]
UrlError(reason) == [kind |-> "URLError", code |-> 0, reason |-> reason, html |-> <<>>]
Page(html) == [kind |-> "ok", code |-> 200, reason |-> "", html |-> html]

\* a package page of `repo` showing version `text`
RepoPage(repo, text) ==
    Page(<<Tok("other", "", <<>>), Tok("table", repo, <<>>),
           Tok("version", repo, text), Tok("/table", "", <<>>)>>)

Catalogue ==
    { Pkg(1, "r-foo", <<"1", ".", "2", "-", "1">>, Url("cran.r-project.org", "foo")),
      Pkg(2, "r-cur", <<"1", ".", "2", "-", "1">>, Url("CRAN.R-project.org", "cur")),
      Pkg(3, "r-ext", <<"0", ".", "9", "-", "2">>, Url("example.com", "ext")),
      Pkg(4, "r-gone", <<"2", "_", "0", "-", "1">>, Url("bioconductor.org", "gone")),
      Pkg(5, "r-bare", <<"1", ".", "0", "-", "1">>, Url("cran.r-project.org", "bare")),
      Pkg(7, "r-down", <<"3", ".", "1", "-", "1">>, Url("cran.r-project.org", "down")),
      Pkg(6, "r-dev", <<"1", ".", "2", "a", "-", "1">>, Url("bioconductor.org", "dev")) }

CatalogueWeb ==
    [u \in {p.URL : p \in Catalogue} |->
        CASE u.path = "foo" -> RepoPage("CRAN", <<"1", ".", "3">>)
          [] u.path = "cur" -> RepoPage("CRAN", <<"1", ".", "2">>)
          [] u.path = "gone" -> HttpError(404)
          [] u.path = "bare" -> Page(<<Tok("other", "", <<>>)>>)
          [] u.path = "dev" -> RepoPage("Bioconductor", <<"1", ".", "3">>)
          [] u.path = "down" -> UrlError("unreachable")
          [] OTHER -> HttpError(404)]

\* the list with its positions, so that a chunk element knows where it came from
Indexed(list) == [k \in 1..Len(list) |-> [pos |-> k, pkg |-> list[k]]]

\* -------------------------------------------------------------------- lines
Line(level, pos, name, kind, detail) ==
    [level |-> level, pos |-> pos, Name |-> name, kind |-> kind, detail |-> detail]

\* ------------------------------------------------------------- APProgress
\* `with self.lock` / `with finished.lock`: an RLock, free or already ours
LockFree(t) == lock_owner \in {0, t}

\* --------------------------------------------------------- check_updates
Item(t) == chunk[t][cur[t]]

\* for package in packages: / with finished.lock:
Acquire(t) ==
    /\ pc[t] = "loop"
    /\ cur[t] < Len(chunk[t])
    /\ LockFree(t)
    /\ lock_owner' = t
    /\ cur' = [cur EXCEPT ![t] = @ + 1]
    /\ package' = [package EXCEPT ![t] = chunk[t][cur[t] + 1].pkg]
    /\ pc' = [pc EXCEPT ![t] = "increment"]
    /\ UNCHANGED <<inputs, mainVars, chunk, finished_val, output_info, stdout, uptodate>>

\* the for loop is exhausted: check_updates returns
Return(t) ==
    /\ pc[t] = "loop"
    /\ cur[t] = Len(chunk[t])
    /\ pc' = [pc EXCEPT ![t] = "done"]
    /\ UNCHANGED <<inputs, mainVars, chunk, cur, package, finished_val, lock_owner,
                   output_info, stdout, uptodate>>

\* (a variant that goes through the with block without adding to the counter)
IncrementNothing(t) ==
    /\ pc[t] = "increment"
    /\ LockFree(t)
    /\ pc' = [pc EXCEPT ![t] = "print"]
    /\ UNCHANGED <<inputs, mainVars, chunk, cur, package, finished_val, lock_owner,
                   output_info, stdout, uptodate>>

\* (a variant that counts the whole chunk of its task at once)
IncrementChunk(t) ==
    /\ pc[t] = "increment"
    /\ LockFree(t)
    /\ finished_val' = finished_val + Len(chunk[t])
    /\ pc' = [pc EXCEPT ![t] = "print"]
    /\ UNCHANGED <<inputs, mainVars, chunk, cur, package, lock_owner, output_info,
                   stdout, uptodate>>

\* finished.increment()
Increment(t) ==
    /\ pc[t] = "increment"
    /\ LockFree(t)
    /\ finished_val' = finished_val + 1
    /\ pc' = [pc EXCEPT ![t] = "print"]
    /\ UNCHANGED <<inputs, mainVars, chunk, cur, package, lock_owner, output_info,
                   stdout, uptodate>>

\* (a variant whose with block does not end after the print)
PrintProgressHolding(t) ==
    /\ pc[t] = "print"
    /\ LockFree(t)
    /\ stdout' = Append(stdout,
                   [shown |-> finished_val, total |-> pkg_total,
                    end |-> IF finished_val < pkg_total THEN "\r" ELSE " "])
    /\ pc' = [pc EXCEPT ![t] = "lookup"]
    /\ UNCHANGED <<inputs, mainVars, chunk, cur, package, finished_val, lock_owner,
                   output_info, uptodate>>

\* print("Processing package " ..., end=...) and the end of the with block
PrintProgress(t) ==
    /\ pc[t] = "print"
    /\ LockFree(t)
    /\ stdout' = Append(stdout,
                   [shown |-> finished_val, total |-> pkg_total,
                    end |-> IF finished_val < pkg_total THEN "\r" ELSE " "])
    /\ lock_owner' = IF lock_owner = t THEN 0 ELSE lock_owner
    /\ pc' = [pc EXCEPT ![t] = "lookup"]
    /\ UNCHANGED <<inputs, mainVars, chunk, cur, package, finished_val, output_info,
                   uptodate>>

\* lines 130-149: reduce the record, normalise Version, look the host up
Lookup(t) ==
    /\ pc[t] = "lookup"
    /\ LET kept   == KeepMandatory(package[t])
           pkg    == [kept EXCEPT !.Version = DeclaredVersion(@)]
           domain == Domain(pkg.URL)
       IN  /\ package' = [package EXCEPT ![t] = pkg]
           /\ IF ~Supported(domain)
              THEN /\ output_info' = Append(output_info,
                          Line("WARN", Item(t).pos, pkg.Name, "unsupported", domain))
                   /\ pc' = [pc EXCEPT ![t] = "loop"]
              ELSE /\ output_info' = output_info
                   /\ pc' = [pc EXCEPT ![t] = "fetch"]
    /\ UNCHANGED <<inputs, mainVars, chunk, cur, finished_val, lock_owner, stdout,
                   uptodate>>

\* lines 152-213: urlopen returns or raises, the page is searched, the
\* handlers turn HTTPError, URLError and RepoSearchError into a line
Fetch(t) ==
    /\ pc[t] = "fetch"
    /\ LET pkg      == package[t]
           repo     == RepoOf(Domain(pkg.URL))
           response == web[pkg.URL]
           table    == TableSearch(repo, response.html)
           version  == VersionSearch(repo, table.group)
           warn(kind, detail) ==
               /\ output_info' = Append(output_info,
                      Line("WARN", Item(t).pos, pkg.Name, kind, detail))
               /\ package' = package
               /\ pc' = [pc EXCEPT ![t] = "loop"]
       IN  CASE response.kind = "HTTPError" -> warn("server returned", response.code)
             [] response.kind = "URLError" -> warn("connect", response.reason)
             [] response.kind = "ok" /\ ~table.found ->
                    warn("response", "can't find package info")
             [] response.kind = "ok" /\ table.found /\ ~version.found ->
                    warn("response", "can't find version info")
             [] OTHER ->
                    /\ package' = [package EXCEPT ![t] =
                           [k \in (DOMAIN pkg) \cup {"RepoVer", "RepoVersion"} |->
                               CASE k = "RepoVer" -> version.group
                                 [] k = "RepoVersion" -> RepoVersion(version.group)
                                 [] OTHER -> pkg[k]]]
                    /\ output_info' = output_info
                    /\ pc' = [pc EXCEPT ![t] = "compare"]
    /\ UNCHANGED <<inputs, mainVars, chunk, cur, finished_val, lock_owner, stdout,
                   uptodate>>

\* lines 215-227: both versions become lists of int (ValueError ends the
\* task: nothing in check_updates catches it) and are compared
Compare(t) ==
    /\ pc[t] = "compare"
    /\ LET pkg     == package[t]
           repo    == RepoOf(Domain(pkg.URL))
           aurver  == IntFields(pkg.Version)
           repover == IntFields(pkg.RepoVersion)
       IN  IF ~aurver.ok \/ ~repover.ok
           THEN /\ pc' = [pc EXCEPT ![t] = "ValueError"]
                /\ UNCHANGED <<output_info, uptodate>>
           ELSE IF ListLess(aurver.val, repover.val)
           THEN /\ output_info' = Append(output_info,
                       Line("INFO", Item(t).pos, pkg.Name, "outdated",
                            <<pkg.Version, pkg.RepoVer, repo.name>>))
                /\ pc' = [pc EXCEPT ![t] = "loop"]
                /\ UNCHANGED uptodate
           ELSE /\ uptodate' = uptodate \cup {Item(t).pos}
                /\ pc' = [pc EXCEPT ![t] = "loop"]
                /\ UNCHANGED output_info
    /\ UNCHANGED <<inputs, mainVars, chunk, cur, package, finished_val, lock_owner,
                   stdout>>

\* ------------------------------------------------------------------- main
start_i(k) == k * pkgs_per_proc

\* (a variant whose slices include their end)
end_i_inclusive(k) ==
    IF k # num_proc - 1 THEN <<(k + 1) * pkgs_per_proc + 1>> ELSE None

end_i(k) == IF k # num_proc - 1 THEN <<(k + 1) * pkgs_per_proc>> ELSE None

\* one turn of the load balancing loop: slice and pool.apply_async
Submit ==
    /\ main_pc = "dispatch"
    /\ i < num_proc
    /\ chunk' = [chunk EXCEPT ![i + 1] = Slice(Indexed(pkglist), start_i(i), end_i(i))]
    /\ pc' = [pc EXCEPT ![i + 1] = "loop"]
    /\ i' = i + 1
    /\ UNCHANGED <<inputs, main_pc, report, cur, package, finished_val, lock_owner,
                   output_info, stdout, uptodate>>

\* pool.close()
Close ==
    /\ main_pc = "dispatch"
    /\ i = num_proc
    /\ main_pc' = "join"
    /\ UNCHANGED <<inputs, i, report, chunk, pc, cur, package, finished_val,
                   lock_owner, output_info, stdout, uptodate>>

\* a task is over when check_updates returned or raised
Finished(t) == pc[t] \in {"done", "ValueError"}

\* (a variant that waits for one task only)
AnyJoined == \E t \in Tasks : Finished(t)

\* every task handed to the pool is over: the workers can exit
AllJoined == \A t \in Tasks : Finished(t)

\* pool.join() returns
Join ==
    /\ main_pc = "join"
    /\ AllJoined
    /\ main_pc' = "summary"
    /\ UNCHANGED <<inputs, i, report, chunk, pc, cur, package, finished_val,
                   lock_owner, output_info, stdout, uptodate>>

\* print summary
Summary ==
    /\ main_pc = "summary"
    /\ report' = IF Len(output_info) = 0
                 THEN [said |-> "up-to-date", lines |-> <<>>]
                 ELSE [said |-> "lines", lines |-> output_info]
    /\ main_pc' = "exit"
    /\ UNCHANGED <<inputs, i, chunk, pc, cur, package, finished_val, lock_owner,
                   output_info, stdout, uptodate>>

\* ------------------------------------------------------------------ system
InitRun ==
    /\ main_pc = "dispatch"
    /\ i = 0
    /\ chunk = [t \in Tasks |-> <<>>]
    /\ pc = [t \in Tasks |-> "queued"]
    /\ cur = [t \in Tasks |-> 0]
    /\ package = [t \in Tasks |-> <<>>]
    /\ finished_val = 0
    /\ lock_owner = 0
    /\ output_info = <<>>
    /\ stdout = <<>>
    /\ uptodate = {}
    /\ report = [said |-> "", lines |-> <<>>]

Init ==
    /\ num_proc \in 1..MaxProcs
    /\ \E n \in 1..MaxPkgs : pkglist \in [1..n -> Catalogue]
    /\ web = CatalogueWeb
    /\ InitRun

Next ==
    \/ Submit
    \/ Close
    \/ Join
    \/ Summary
    \/ \E t \in Tasks : Acquire(t)
    \/ \E t \in Tasks : Increment(t)
    \/ \E t \in Tasks : PrintProgress(t)
    \/ \E t \in Tasks : Lookup(t)
    \/ \E t \in Tasks : Fetch(t)
    \/ \E t \in Tasks : Compare(t)
    \/ \E t \in Tasks : Return(t)

Spec == Init /\ [][Next]_vars

\* the steps of task t from the head of its loop to the lookup: the ones
\* around the progress lock
Local(t) ==
    \/ Acquire(t) \/ Increment(t) \/ PrintProgress(t)
    \/ Lookup(t) \/ Return(t)

\* larger batches and pools of one and the same package, for the chunking.
\* Every package is r-cur: the slices depend on the list's length alone.
InitChunks ==
    /\ num_proc \in 1..MaxPool
    /\ \E n \in 1..MaxBatch :
           pkglist = [k \in 1..n |-> CHOOSE p \in Catalogue : p.Name = "r-cur"]
    /\ web = CatalogueWeb
    /\ InitRun

SpecChunks == InitChunks /\ [][Next]_vars

\* one CRAN package whose declared version and upstream page are given
Probe(declared, upstream) ==
    /\ num_proc = 1
    /\ pkglist = <<Pkg(0, "r-probe", declared, Url("cran.r-project.org", "probe"))>>
    /\ web = [u \in {Url("cran.r-project.org", "probe")} |-> RepoPage("CRAN", upstream)]
    /\ InitRun

\* s joined to t by a dot
Dot(s, t) == s \o <<".">> \o t

\* the versions of 1..n dot-separated fields drawn from `fields`
RECURSIVE Dotted(_, _)
Dotted(fields, n) ==
    IF n = 1 THEN fields
    ELSE Dotted(fields, n - 1) \cup
         {Dot(v, f) : v \in Dotted(fields, n - 1), f \in fields}

\* SpecCompare: numeric versions of up to MaxFields fields on both sides
MaxFields == 2
FieldChoices == {<<"0">>, <<"2">>, <<"9">>, <<"1", "0">>}

InitCompare ==
    \E declared \in Dotted(FieldChoices, MaxFields) :
        \E upstream \in Dotted(FieldChoices, MaxFields) :
            Probe(declared \o <<"-", "1">>, upstream)

SpecCompare == InitCompare /\ [][Next]_vars

\* SpecDeclared: every declared version of up to MaxVerLen characters of
\* VersionChars, and the two versions the documentation works out
MaxVerLen == 3
VersionChars == {"1", "2", ".", "-", "_", "+", "a"}

RECURSIVE Strings(_, _)
Strings(chars, n) ==
    IF n = 0 THEN {<<>>}
    ELSE Strings(chars, n - 1) \cup
         {Append(v, c) : v \in Strings(chars, n - 1), c \in chars}

DeclaredInputs ==
    Strings(VersionChars, MaxVerLen) \cup
        { <<"2", ".", "1", ".", "0", "-", "3">>, <<"1", "_", "2", "_", "3">> }

InitDeclared == \E declared \in DeclaredInputs : Probe(declared, <<"1", ".", "3">>)

SpecDeclared == InitDeclared /\ [][Next]_vars

\* SpecPages: one CRAN package whose page is any sequence of up to
\* MaxPageLen tokens of PageTokens
MaxPageLen == 4
PageTokens ==
    { Tok("other", "", <<>>), Tok("table", "CRAN", <<>>),
      Tok("table", "Bioconductor", <<>>), Tok("/table", "", <<>>),
      Tok("version", "CRAN", <<"1", ".", "3">>),
      Tok("version", "CRAN", <<"1", ".", "1">>) }

InitPages ==
    \E html \in Strings(PageTokens, MaxPageLen) :
        /\ num_proc = 1
        /\ pkglist = <<Pkg(0, "r-probe", <<"1", ".", "2", "-", "1">>,
                           Url("cran.r-project.org", "probe"))>>
        /\ web = [u \in {Url("cran.r-project.org", "probe")} |-> Page(html)]
        /\ InitRun

SpecPages == InitPages /\ [][Next]_vars

\* SpecUpstream: a package declared as 1.2-1 whose page shows any version
\* of up to MaxUpLen characters of UpstreamChars, or the documented 1.2-3
MaxUpLen == 3
UpstreamChars == {"1", "2", ".", "-", ":"}

UpstreamInputs ==
    Strings(UpstreamChars, MaxUpLen) \cup { <<"1", ".", "2", "-", "3">> }

InitUpstream ==
    \E upstream \in UpstreamInputs : Probe(<<"1", ".", "2", "-", "1">>, upstream)

SpecUpstream == InitUpstream /\ [][Next]_vars

\* SpecPrefix: numeric versions of up to MaxPrefixFields fields, one of the
\* two a proper prefix of the other, on either side
MaxPrefixFields == 3
PrefixChoices == {<<"0">>, <<"1">>, <<"2">>}

InitPrefix ==
    \E long \in Dotted(PrefixChoices, MaxPrefixFields) :
        \E short \in Dotted(PrefixChoices, MaxPrefixFields) :
            /\ Len(short) < Len(long)
            /\ SubSeq(long, 1, Len(short) + 1) = Append(short, ".")
            /\ \/ Probe(short \o <<"-", "1">>, long)
               \/ Probe(long \o <<"-", "1">>, short)

SpecPrefix == InitPrefix /\ [][Next]_vars

\* ---------------------------------------------------------- vocabulary
Positions == 1..pkg_total

\* the lines of the result log that package `pos` contributed
LinesOf(pos) == {j \in 1..Len(output_info) : output_info[j].pos = pos}

\* the outcomes package `pos` has: its lines, and UpToDate if it fell through
Outcomes(pos) == Cardinality(LinesOf(pos)) + (IF pos \in uptodate THEN 1 ELSE 0)

\* every task was handed to the pool and is over
AllTasksOver == \A t \in Tasks : pc[t] \in {"done", "ValueError"}

\* the k-th package of task t has left the loop body (by continue or fall through)
Left(t, k) == k < cur[t] \/ (k = cur[t] /\ pc[t] \in {"loop", "done"})

\* a field that is not one or more decimal digits
PurelyNumeric(field) ==
    Len(field) > 0 /\ \A k \in 1..Len(field) : field[k] \in DigitChars

HasBadField(version) ==
    \E k \in 1..Len(Split(version, ".")) : ~PurelyNumeric(Split(version, ".")[k])

\* the host of the package has a profile, whatever the case of its letters
HasProfile(pkg) ==
    \E r \in 1..Len(SUPPORTED_REPOS) : SUPPORTED_REPOS[r].url = Lower(pkg.URL.netloc)

\* the version text the page of a package shows to its profile, if any
Upstream(pkg) ==
    LET repo  == RepoOf(Lower(pkg.URL.netloc))
        table == TableSearch(repo, web[pkg.URL].html)
    IN  VersionSearch(repo, table.group)

\* supported host, page fetched, version extracted
Parsed(pkg) ==
    /\ HasProfile(pkg)
    /\ web[pkg.URL].kind = "ok"
    /\ TableSearch(RepoOf(Lower(pkg.URL.netloc)), web[pkg.URL].html).found
    /\ Upstream(pkg).found

\* the declared or the upstream version of a parsed package is malformed
Malformed(pkg) ==
    /\ Parsed(pkg)
    /\ \/ HasBadField(DeclaredVersion(pkg.Version))
       \/ HasBadField(RepoVersion(Upstream(pkg).group))

\* ------------------------------------------------------------------ claims
\* C1: once all workers have finished, the progress counter equals the
\* number of packages, for every pool size and every mix of outcomes.
C1_CounterEqualsTotal == AllTasksOver => finished_val = pkg_total

\* C2: a package with a malformed version gets a Failed line in the result
\* log, and every later package of the same chunk is still checked.
C2_MalformedIsReportedAndBatchGoesOn ==
    AllTasksOver =>
        \A t \in Tasks : \A k \in 1..Len(chunk[t]) :
            Malformed(chunk[t][k].pkg) =>
                /\ \E j \in LinesOf(chunk[t][k].pos) : output_info[j].level = "WARN"
                /\ \A m \in (k + 1)..Len(chunk[t]) : Outcomes(chunk[t][m].pos) >= 1

\* C3: when the dispatcher has returned from its join, every input package
\* has exactly one outcome: UpToDate and no line, or exactly one line.
C3_ExactlyOneOutcome ==
    main_pc \in {"summary", "exit"} => \A pos \in Positions : Outcomes(pos) = 1

\* C4: after a run the result log is empty if and only if every package is
\* UpToDate, so "all up-to-date" is printed only when nothing was outdated,
\* skipped or failed.
C4_EmptyLogMeansAllUpToDate ==
    main_pc = "exit" =>
        /\ (Len(output_info) = 0) <=> (\A pos \in Positions : pos \in uptodate)
        /\ report.said = "up-to-date" => \A pos \in Positions : pos \in uptodate

\* C5: the summary step of main() is reached only when every check_updates
\* task has been started and is over; the log is read nowhere before.
C5_SummaryAfterAllTasks ==
    /\ main_pc \in {"summary", "exit"} => AllTasksOver
    /\ main_pc # "exit" => report.said = ""

C5_Witness ==
    /\ main_pc = "summary"
    /\ num_proc >= 2
    /\ \E t \in Tasks, u \in Tasks : t # u /\ cur[t] >= 1 /\ cur[u] >= 1
    /\ Len(output_info) >= 1

\* C6: the chunks handed to the workers partition the package list: every
\* position is in exactly one chunk, each chunk is a contiguous run in input
\* order holding the records of its positions, and chunks follow each other.
C6_ChunksPartition ==
    main_pc # "dispatch" =>
        /\ \A pos \in Positions :
               Cardinality({<<t, k>> \in Tasks \X (1..pkg_total) :
                               k <= Len(chunk[t]) /\ chunk[t][k].pos = pos}) = 1
        /\ \A t \in Tasks : \A k \in 1..Len(chunk[t]) :
               /\ chunk[t][k].pos \in Positions
               /\ chunk[t][k].pkg = pkglist[chunk[t][k].pos]
               /\ k > 1 => chunk[t][k].pos = chunk[t][k - 1].pos + 1
        /\ \A t \in Tasks, u \in Tasks :
               t < u => \A k \in 1..Len(chunk[t]), m \in 1..Len(chunk[u]) :
                            chunk[t][k].pos < chunk[u][m].pos

C6_Witness ==
    /\ main_pc = "exit"
    /\ pkg_total = 4 /\ num_proc = 3
    /\ Len(chunk[1]) = 1 /\ Len(chunk[3]) = 2
    /\ \A t \in Tasks : pc[t] = "done"

\* C7: every worker but the last gets floor(N / W) packages, the last gets
\* the remaining N - (W-1)*floor(N / W); with W > N at least W - N workers
\* get an empty chunk, and a worker with an empty chunk returns without error.
C7_ChunkSizes ==
    LET N == pkg_total
        W == num_proc
        q == CHOOSE q \in 0..N : q * W <= N /\ N < (q + 1) * W
    IN  /\ main_pc # "dispatch" =>
               /\ \A t \in 1..(W - 1) : Len(chunk[t]) = q
               /\ Len(chunk[W]) = N - (W - 1) * q
               /\ W > N => Cardinality({t \in Tasks : Len(chunk[t]) = 0}) >= W - N
        /\ \A t \in Tasks :
               (pc[t] # "queued" /\ Len(chunk[t]) = 0) => pc[t] \in {"loop", "done"}
        /\ main_pc \in {"summary", "exit"} =>
               \A t \in Tasks : Len(chunk[t]) = 0 => pc[t] = "done"

C7_Witness ==
    /\ main_pc = "exit"
    /\ num_proc > pkg_total /\ pkg_total >= 2
    /\ \E t \in Tasks : Len(chunk[t]) = 0 /\ pc[t] = "done"
    /\ finished_val = pkg_total

\* a before b in lexicographic order of integer tuples: a is a proper
\* prefix of b, or a is smaller where the two first differ
LexLess(a, b) ==
    \E k \in 1..Len(b) :
        /\ \A j \in 1..(k - 1) : j <= Len(a) /\ a[j] = b[j]
        /\ k <= Len(a) => a[k] < b[k]
        /\ k <= Len(a) + 1

\* the two tuples check_updates compares for a parsed package
DeclaredTuple(pkg) == IntFields(DeclaredVersion(pkg.Version)).val
UpstreamTuple(pkg) == IntFields(RepoVersion(Upstream(pkg).group)).val

\* C8: for a package on a supported host whose page was fetched and parsed,
\* an Outdated line is appended exactly when the declared tuple is strictly
\* below the upstream tuple in lexicographic integer order; otherwise the
\* package is UpToDate and nothing is appended.
C8_OutdatedIffLess ==
    \A t \in Tasks : \A k \in 1..Len(chunk[t]) :
        LET pkg == chunk[t][k].pkg
            pos == chunk[t][k].pos
        IN  (Parsed(pkg) /\ ~Malformed(pkg)) =>
                /\ ~Left(t, k) => Outcomes(pos) = 0
                /\ Left(t, k) =>
                       IF LexLess(DeclaredTuple(pkg), UpstreamTuple(pkg))
                       THEN /\ pos \notin uptodate
                            /\ Cardinality(LinesOf(pos)) = 1
                            /\ \A j \in LinesOf(pos) :
                                   /\ output_info[j].kind = "outdated"
                                   /\ output_info[j].Name = pkg.Name
                                   /\ output_info[j].detail =
                                          <<DeclaredVersion(pkg.Version),
                                            Upstream(pkg).group, "CRAN">>
                       ELSE pos \in uptodate /\ LinesOf(pos) = {}

\* declared 9 against upstream 10, compared and reported
C8_Witness ==
    /\ pc[1] = "done"
    /\ DeclaredTuple(pkglist[1]) = <<9>> /\ UpstreamTuple(pkglist[1]) = <<10>>
    /\ Len(output_info) = 1 /\ output_info[1].kind = "outdated"

\* the characters of s before its first '-', every '_' turned into '.'
BeforeDash(s) ==
    LET n == CHOOSE n \in 0..Len(s) :
                 /\ \A j \in 1..n : s[j] # "-"
                 /\ n < Len(s) => s[n + 1] = "-"
    IN  [j \in 1..n |-> IF s[j] = "_" THEN "." ELSE s[j]]

\* C9: a declared version is cut at its first '-', its '_' become '.', it is
\* split on '.' and each field is read as a base-10 integer ("2.1.0-3" gives
\* [2,1,0], "1_2_3" gives [1,2,3]); a field that is not purely numeric makes
\* the normalization fail, it is never read as a number.
C9_DeclaredNormalization ==
    \A t \in Tasks :
        (cur[t] = 1 /\ pc[t] \in {"loop", "done", "ValueError"}) =>
            LET raw    == chunk[t][1].pkg.Version
                fields == Split(BeforeDash(raw), ".")
            IN  /\ package[t].Version = BeforeDash(raw)
                /\ (\E k \in 1..Len(fields) : ~PurelyNumeric(fields[k]))
                       <=> pc[t] = "ValueError"
                /\ pc[t] # "ValueError" =>
                       /\ Len(DeclaredTuple(chunk[t][1].pkg)) = Len(fields)
                       /\ \A k \in 1..Len(fields) :
                              DeclaredTuple(chunk[t][1].pkg)[k] = DecimalValue(fields[k])
                /\ raw = <<"2", ".", "1", ".", "0", "-", "3">> =>
                       DeclaredTuple(chunk[t][1].pkg) = <<2, 1, 0>>
                /\ raw = <<"1", "_", "2", "_", "3">> =>
                       DeclaredTuple(chunk[t][1].pkg) = <<1, 2, 3>>

RECURSIVE IncrementsDue(_)
\* the packages the tasks 1..t took from their chunks and counted
IncrementsDue(t) ==
    IF t = 0 THEN 0
    ELSE IncrementsDue(t - 1) + cur[t] - (IF pc[t] = "increment" THEN 1 ELSE 0)

\* C10: a package whose host has no profile gets one Skipped line naming the
\* host, no fetch is issued for it, the counter is incremented for it as for
\* any other package, and its worker goes on with the rest of its chunk.
C10_UnsupportedIsSkipped ==
    /\ finished_val = IncrementsDue(num_proc)
    /\ \A t \in Tasks :
           /\ pc[t] = "done" => cur[t] = Len(chunk[t])
           /\ \A k \in 1..cur[t] :
                  LET pkg == chunk[t][k].pkg
                      pos == chunk[t][k].pos
                  IN  ~HasProfile(pkg) =>
                          /\ k = cur[t] =>
                                 pc[t] \in {"increment", "print", "lookup", "loop", "done"}
                          /\ ~Left(t, k) => Outcomes(pos) = 0
                          /\ Left(t, k) =>
                                 /\ pos \notin uptodate
                                 /\ Cardinality(LinesOf(pos)) = 1
                                 /\ \A j \in LinesOf(pos) :
                                        /\ output_info[j].level = "WARN"
                                        /\ output_info[j].kind = "unsupported"
                                        /\ output_info[j].Name = pkg.Name
                                        /\ output_info[j].detail = Lower(pkg.URL.netloc)

\* a worker skipped the first package of its chunk and took the second
C10_Witness ==
    \E t \in Tasks :
        /\ cur[t] = 2
        /\ ~HasProfile(chunk[t][1].pkg)
        /\ Cardinality(LinesOf(chunk[t][1].pos)) = 1
        /\ finished_val = 2
        /\ pc[t] = "compare"

\* the page of the package of task t, and where its first CRAN container
\* opens and closes (0 when there is none)
PageOf(t) == web[chunk[t][1].pkg.URL].html

ContainerOpen(html) ==
    LET os == {o \in 1..Len(html) :
                  /\ html[o] = Tok("table", "CRAN", <<>>)
                  /\ \E c \in (o + 1)..Len(html) : html[c] = Tok("/table", "", <<>>)}
    IN  IF os = {} THEN 0 ELSE CHOOSE o \in os : \A p \in os : o <= p

ContainerClose(html) ==
    LET cs == {c \in (ContainerOpen(html) + 1)..Len(html) :
                  html[c] = Tok("/table", "", <<>>)}
    IN  IF ContainerOpen(html) = 0 THEN 0 ELSE CHOOSE c \in cs : \A d \in cs : c <= d

\* the version rows strictly inside the first container
RowsInside(html) ==
    {v \in (ContainerOpen(html) + 1)..(ContainerClose(html) - 1) : html[v].tag = "version"}

\* C11: the version pattern is applied to the container's fragment only.
\* Without a container the failure is "can't find package info" whatever
\* else the page holds; "can't find version info" is reported exactly when
\* the container matched and holds no version row; a version that is found
\* is the first row inside the container, never one outside it.
C11_TwoStageExtraction ==
    \A t \in Tasks :
        (cur[t] = 1 /\ pc[t] \in {"compare", "loop", "done", "ValueError"}) =>
            LET html == PageOf(t)
                pos  == chunk[t][1].pos
            IN  IF ContainerOpen(html) = 0
                THEN /\ Cardinality(LinesOf(pos)) = 1
                     /\ \A j \in LinesOf(pos) :
                            output_info[j].detail = "can't find package info"
                ELSE IF RowsInside(html) = {}
                THEN /\ Cardinality(LinesOf(pos)) = 1
                     /\ \A j \in LinesOf(pos) :
                            output_info[j].detail = "can't find version info"
                ELSE /\ "RepoVer" \in DOMAIN package[t]
                     /\ \E v \in RowsInside(html) :
                            /\ \A w \in RowsInside(html) : v <= w
                            /\ package[t].RepoVer = html[v].text
                     /\ \A j \in LinesOf(pos) : output_info[j].kind = "outdated"

\* a version row in front of a container that holds none: version info is
\* what cannot be found
C11_Witness ==
    /\ pc[1] = "done"
    /\ Len(PageOf(1)) = 3
    /\ PageOf(1)[1].tag = "version"
    /\ ContainerOpen(PageOf(1)) = 2
    /\ Len(output_info) = 1
    /\ output_info[1].detail = "can't find version info"

\* a version row on a page without container: package info is what cannot
\* be found
C11_WitnessNoContainer ==
    /\ pc[1] = "done"
    /\ \E v \in 1..Len(PageOf(1)) : PageOf(1)[v].tag = "version"
    /\ ContainerOpen(PageOf(1)) = 0
    /\ Len(output_info) = 1
    /\ output_info[1].detail = "can't find package info"

\* the line check_updates appends for package `pkg` taken on its own: none
\* when it is up to date, and none when int() refuses one of its versions
CheckLines(pos, pkg) ==
    IF ~HasProfile(pkg)
    THEN {Line("WARN", pos, pkg.Name, "unsupported", Lower(pkg.URL.netloc))}
    ELSE LET response == web[pkg.URL]
             repo     == RepoOf(Lower(pkg.URL.netloc))
         IN  CASE response.kind = "HTTPError" ->
                      {Line("WARN", pos, pkg.Name, "server returned", response.code)}
               [] response.kind = "URLError" ->
                      {Line("WARN", pos, pkg.Name, "connect", response.reason)}
               [] response.kind = "ok" /\ ~TableSearch(repo, response.html).found ->
                      {Line("WARN", pos, pkg.Name, "response", "can't find package info")}
               [] response.kind = "ok" /\ TableSearch(repo, response.html).found
                                       /\ ~Upstream(pkg).found ->
                      {Line("WARN", pos, pkg.Name, "response", "can't find version info")}
               [] OTHER ->
                      IF /\ IntFields(DeclaredVersion(pkg.Version)).ok
                         /\ IntFields(RepoVersion(Upstream(pkg).group)).ok
                         /\ LexLess(DeclaredTuple(pkg), UpstreamTuple(pkg))
                      THEN {Line("INFO", pos, pkg.Name, "outdated",
                                 <<DeclaredVersion(pkg.Version), Upstream(pkg).group,
                                   repo.name>>)}
                      ELSE {}

\* C12: for fixed responses the lines of the result log are a function of
\* the batch alone: whatever the interleaving and the pool size, the log
\* ends up holding, in some order, the line of each package taken on its own.
C12_SameLinesWhateverTheSchedule ==
    main_pc = "exit" =>
        /\ {output_info[j] : j \in 1..Len(output_info)} =
               UNION {CheckLines(pos, pkglist[pos]) : pos \in Positions}
        /\ \A j \in 1..Len(output_info), k \in 1..Len(output_info) :
               output_info[j] = output_info[k] => j = k

\* C13: a fetch that never returns blocks nobody else.  No task holds the
\* progress lock from the lookup to the comparison, urlopen included.  So a
\* task that is not over can always take a step around the lock, or is in
\* its own fetch or comparison, or waits for the lock while its holder can
\* take a step: no task ever waits for the fetch of another.
C13_StuckFetchBlocksNobody ==
    /\ \A t \in Tasks : pc[t] \in {"lookup", "fetch", "compare"} => lock_owner # t
    /\ lock_owner # 0 => pc[lock_owner] \in {"increment", "print"}
    /\ \A u \in Tasks :
           pc[u] \notin {"queued", "done", "ValueError"} =>
               \/ ENABLED Local(u)
               \/ pc[u] \in {"fetch", "compare"}
               \/ /\ pc[u] = "loop"
                  /\ lock_owner \in Tasks \ {u}
                  /\ ENABLED Local(lock_owner)

\* the first task is inside urlopen, another one went through its chunk,
\* counted and logged meanwhile
C13_Witness ==
    /\ pc[1] = "fetch"
    /\ \E u \in Tasks \ {1} :
           /\ pc[u] = "done" /\ cur[u] >= 1
           /\ LinesOf(chunk[u][1].pos) # {}
    /\ finished_val = pkg_total

\* C14: the run always completes with every task at the end of its chunk:
\* when main is at the summary, each task has returned from check_updates
\* after the last item of its chunk.
C14_EveryTaskFinishesItsChunk ==
    main_pc \in {"summary", "exit"} =>
        \A t \in Tasks : pc[t] = "done" /\ cur[t] = Len(chunk[t])

\* C15: the progress counter stays between 0 and the number of packages, it
\* never decreases, and a step that changes it adds exactly 1, for the one
\* package that exactly one task has just taken from its chunk.
C15_CounterBoundedAndStepsByOne ==
    /\ [](finished_val \in 0..pkg_total)
    /\ [][/\ finished_val' >= finished_val
          /\ finished_val' # finished_val =>
                 /\ finished_val' = finished_val + 1
                 /\ \E t \in Tasks :
                        /\ pc[t] = "increment" /\ pc'[t] = "print"
                        /\ package[t] = Item(t).pkg
                        /\ \A u \in Tasks \ {t} : pc'[u] = pc[u]
                        /\ cur' = cur]_vars

\* two tasks have counted a package each, and the counter is at the total
C15_Witness ==
    /\ finished_val = pkg_total
    /\ Cardinality({t \in Tasks : cur[t] >= 1}) >= 2

\* the tasks between the start of the with block and its end
InCriticalSection == {t \in Tasks : pc[t] \in {"increment", "print"}}

\* C16: increment, reads and print are one critical section, no two tasks
\* are inside it at once; the k-th progress line shows k of N, only the line
\* showing N ends otherwise than with a carriage return, and the lines of a
\* run are those of 1, 2, ..., N.
C16_ProgressLinesCountToTotal ==
    /\ Cardinality(InCriticalSection) <= 1
    /\ \A t \in InCriticalSection : lock_owner = t
    /\ \A k \in 1..Len(stdout) :
           /\ stdout[k].shown = k
           /\ stdout[k].total = pkg_total
           /\ stdout[k].end = " " <=> k = pkg_total
    /\ main_pc = "exit" => Len(stdout) = pkg_total

\* a package that is outdated, skipped or failed: every one but those whose
\* versions both parse with the declared one not less than the upstream one
Reportable(pkg) ==
    ~(/\ Parsed(pkg)
      /\ ~Malformed(pkg)
      /\ ~LexLess(DeclaredTuple(pkg), UpstreamTuple(pkg)))

\* the result log only grows at its end: every entry keeps its place
AppendOnly ==
    [][/\ Len(output_info') >= Len(output_info)
       /\ \A j \in 1..Len(output_info) : output_info'[j] = output_info[j]]_vars

\* C17: the result log loses no append: it holds no two lines of one
\* package, and when all tasks are over its length is the number of packages
\* that were outdated, skipped or failed.
C17_LogLengthIsReportableCount ==
    /\ \A j \in 1..Len(output_info), k \in 1..Len(output_info) :
           output_info[j].pos = output_info[k].pos => j = k
    /\ AllTasksOver =>
           Len(output_info) =
               Cardinality({pos \in Positions : Reportable(pkglist[pos])})

\* a is b cut short: fewer items, each equal to the item of b at its place
ProperPrefix(a, b) ==
    /\ Len(a) < Len(b)
    /\ \A k \in 1..Len(a) : a[k] = b[k]

\* C18: trailing fields that one tuple lacks compare as absent, not as zero:
\* a declared tuple that is a proper prefix of the upstream one is less, and
\* the package is reported outdated (declared [1,2] against upstream
\* [1,2,0] too); an upstream tuple that is a proper prefix of the declared
\* one leaves the package up to date.
C18_PrefixIsLess ==
    \A t \in Tasks : \A k \in 1..Len(chunk[t]) :
        LET pkg == chunk[t][k].pkg
            pos == chunk[t][k].pos
        IN  (Parsed(pkg) /\ ~Malformed(pkg) /\ Left(t, k)) =>
                /\ ProperPrefix(DeclaredTuple(pkg), UpstreamTuple(pkg)) =>
                       /\ pos \notin uptodate
                       /\ Cardinality(LinesOf(pos)) = 1
                       /\ \A j \in LinesOf(pos) : output_info[j].kind = "outdated"
                /\ ProperPrefix(UpstreamTuple(pkg), DeclaredTuple(pkg)) =>
                       pos \in uptodate /\ LinesOf(pos) = {}

\* declared 1.2 against upstream 1.2.0, compared and reported
C18_Witness ==
    /\ pc[1] = "done"
    /\ DeclaredTuple(pkglist[1]) = <<1, 2>>
    /\ UpstreamTuple(pkglist[1]) = <<1, 2, 0>>
    /\ Len(output_info) = 1 /\ output_info[1].kind = "outdated"

\* declared 1.2.0 against upstream 1.2, compared and left alone
C18_WitnessLonger ==
    /\ pc[1] = "done"
    /\ DeclaredTuple(pkglist[1]) = <<1, 2, 0>>
    /\ UpstreamTuple(pkglist[1]) = <<1, 2>>
    /\ output_info = <<>> /\ uptodate = {1}

\* s with each ':' and each '-' turned into '.', place by place
ColonsAndDashesAsDots(s) ==
    [j \in 1..Len(s) |-> IF s[j] \in {":", "-"} THEN "." ELSE s[j]]

\* C19: the version a page shows is normalized by turning every ':' and
\* every '-' into '.', and split at the dots: what follows a '-' gives
\* further integer fields of the upstream tuple instead of being dropped, so
\* upstream 1.2-3 is the tuple [1,2,3] and outdates a declared 1.2.
C19_UpstreamNormalization ==
    \A t \in Tasks : \A k \in 1..cur[t] :
        LET pkg    == chunk[t][k].pkg
            pos    == chunk[t][k].pos
            raw    == Upstream(pkg).group
            norm   == ColonsAndDashesAsDots(raw)
            fields == Split(norm, ".")
            tuple  == [j \in 1..Len(fields) |-> DecimalValue(fields[j])]
        IN  Parsed(pkg) =>
                /\ (k = cur[t] /\ pc[t] \in {"compare", "ValueError", "loop", "done"}) =>
                       /\ package[t].RepoVer = raw
                       /\ package[t].RepoVersion = norm
                /\ Len(fields) =
                       1 + Cardinality({j \in 1..Len(raw) : raw[j] \in {".", ":", "-"}})
                /\ (\A j \in 1..Len(fields) : PurelyNumeric(fields[j])) =>
                       /\ ~HasBadField(RepoVersion(raw))
                       /\ UpstreamTuple(pkg) = tuple
                       /\ (Left(t, k) /\ ~Malformed(pkg)) =>
                              IF LexLess(DeclaredTuple(pkg), tuple)
                              THEN /\ Cardinality(LinesOf(pos)) = 1
                                   /\ \A j \in LinesOf(pos) :
                                          /\ output_info[j].kind = "outdated"
                                          /\ output_info[j].detail[2] = raw
                              ELSE pos \in uptodate /\ LinesOf(pos) = {}
                /\ raw = <<"1", ".", "2", "-", "3">> => UpstreamTuple(pkg) = <<1, 2, 3>>

\* declared 1.2-1 against a page showing 1.2-3: tuple [1,2] against
\* [1,2,3], reported outdated
C19_Witness ==
    /\ pc[1] = "done"
    /\ package[1].Version = <<"1", ".", "2">>
    /\ package[1].RepoVer = <<"1", ".", "2", "-", "3">>
    /\ package[1].RepoVersion = <<"1", ".", "2", ".", "3">>
    /\ Len(output_info) = 1 /\ output_info[1].kind = "outdated"

\* the items whose check is under way: counted, not yet classified
InFlight ==
    {t \in Tasks : pc[t] \in {"lookup", "fetch", "compare"}
                   /\ Outcomes(Item(t).pos) = 0}

\* C20: the counter counts the checks that have started: a package is
\* counted before it is classified, so the counter is at least the number
\* of packages that have an outcome, and exceeds it by the checks under way.
C20_CounterCountsStartedChecks ==
    /\ finished_val >= Cardinality({pos \in Positions : Outcomes(pos) >= 1})
    /\ finished_val >=
           Cardinality({pos \in Positions : Outcomes(pos) >= 1}) + Cardinality(InFlight)
    /\ \A t \in Tasks : \A k \in 1..Len(chunk[t]) :
           Outcomes(chunk[t][k].pos) >= 1 => Left(t, k)

\* the counter is at the total and the last progress line is out while a
\* check is still under way and its package has no outcome
C20_Witness ==
    /\ finished_val = pkg_total
    /\ Len(stdout) = pkg_total /\ stdout[pkg_total].end = " "
    /\ InFlight # {}
    /\ Cardinality({pos \in Positions : Outcomes(pos) >= 1}) < pkg_total

====
